---------------------------- MODULE Spec2Model ----------------------------
(***************************************************************************)
(* A model of newspaper/article.py: the Article lifecycle controller.      *)
(*                                                                         *)
(* The Article object is the record `art`; every method of the class is an *)
(* operator taking the record (`self`) and returning the record after the  *)
(* call together with what the call raised.  The collaborators the class   *)
(* consumes (transport, tree parser, extractor, cleaner, formatter) are    *)
(* tables over a small fixed web of pages.                                 *)
(***************************************************************************)
EXTENDS Integers, Sequences, FiniteSets, TLC

VARIABLES
    art,      \* the Article instance (its __dict__)
    config,   \* the Configuration object the Article holds
    ret,      \* what the last call did: operation, arguments, exception, fetches
    peer      \* a second Article constructed with the same Configuration object

vars == <<art, config, ret, peer>>

(***************************************************************************)
(* Python values                                                           *)
(***************************************************************************)
\* None where a str is expected (html, input_html, selector results)
None == "None"
\* None / empty where a URL is expected
NoUrl == <<>>
\* None where a tree or a node is expected
NoneNode == <<>>
\* None where download_exception_msg is expected
NoMsg == <<>>
\* the empty str / empty list
EmptyStr == <<>>
\* None where a character sequence (title, text) is expected
NoneText == << "None" >>
\* where no second Article was constructed
NoPeer == <<>>

\* class ArticleDownloadState
NOT_STARTED == 0
FAILED_RESPONSE == 1
SUCCESS == 2

(***************************************************************************)
(* Bounds of the model                                                     *)
(***************************************************************************)
\* config.max_title of the modelled configuration (characters)
MaxTitle == 3
\* config.max_text of the modelled configuration (characters)
MaxText == 3
\* config.max_summary of the modelled configuration (characters)
MaxSummary == 4
\* config.max_keywords of the modelled configuration
MaxKeywords == 2
\* config.min_word_count and config.min_sent_count of the modelled configuration
MinWordCount == 2
MinSentCount == 2
\* config.max_authors of the modelled configuration
MaxAuthors == 2

(***************************************************************************)
(* The web: URLs are <<scheme, domain, path>>; an href is a URL or a path  *)
(* relative to the page (<<"", "", path>>).                                *)
(***************************************************************************)
uA == <<"http", "s", "/a">>
uB == <<"http", "s", "/b">>
uC == <<"http", "s", "/c">>
uD == <<"http", "s", "/d">>
uE == <<"http", "s", "/e">>
uF == <<"file", "", "/f">>

Urls == {uA, uB, uC, uD, uE, uF}

\* URLs an Article is constructed with
StartUrls == {uA, uD, uF}

\* the document served at each URL (an html string, named by an identifier)
PageAt(url) ==
    CASE url = uA -> "hA"
      [] url = uB -> "hB"
      [] url = uC -> "hC"
      [] url = uD -> "hD"
      [] url = uE -> "hE"
      [] url = uF -> "hF"

\* the body served with an error status at each URL
ErrorBodyAt(url) == IF url = uE THEN "eCF" ELSE "e404"

\* the status code of an error response at each URL
ErrorStatusAt(url) == IF url = uE THEN 403 ELSE 404

\* URLs the transport reaches through one HTTP redirect from the requested URL
Redirected == {uB, uD}

\* response.history of a request: the URLs visited before the final one
RedirectChain(url) == IF url \in Redirected THEN <<url>> ELSE <<>>

\* vendor marker substrings contained in a body
MarkersIn(html) == IF html = "eCF" THEN {"cloudflare"} ELSE {}

Htmls == {"hA", "hB", "hC", "hD", "hE", "hF", ""}

\* html strings a caller hands to download(input_html=...)
InputHtmls == {None, "", "hA"}

\* titles a caller hands to the constructor
InitTitles == {EmptyStr, <<"O", "l", "d", " ", "T">>}

\* titles a caller hands to download(title=...)
ForcedTitles == {NoneText, <<"N", "e", "w", "s">>}

\* the xpath selectors a caller hands to the constructor
Selectors == {"", "//a[@class='more']"}

(***************************************************************************)
(* Collaborators                                                           *)
(***************************************************************************)
\* utils.extract_meta_refresh: the target of the page's meta-refresh tag
extract_meta_refresh(html) ==
    CASE html = "hA" -> uB
      [] html = "hB" -> uC
      [] html = "hC" -> uB
      [] OTHER -> NoUrl

\* parsers.fromstring: the tree of an html string, None when it has none
fromstring(html) ==
    IF html \in {"", "hF", None} THEN NoneNode ELSE <<"tree", html>>

\* doc.xpath(selector): the nodes the read-more selector matches, in document
\* order; each node is given by its href attribute (NoUrl: no href)
xpath(doc, selector) ==
    CASE doc = <<"tree", "hB">> -> << <<"", "", "/d">> >>
      [] doc = <<"tree", "hD">> -> << NoUrl, uE >>
      [] doc = <<"tree", "hE">> -> << uE, uD >>
      [] OTHER -> <<>>

\* urls.prepare_url: an href resolved against the URL of its page
prepare_url(url, source_url) ==
    IF url[1] = "" THEN <<source_url[1], source_url[2], url[3]>> ELSE url

\* urlparse(url).scheme and .path
scheme_of(url) == url[1]
path_of(url) == url[3]

\* what the transport does with one request
Outcomes == {"ok", "status", "exception"}

\* The transport's answers during one call are a sequence env of outcomes, one
\* for each fetch the call issues, in the order it issues them; a fetch past
\* the end of env is answered "ok".
Draw(env, k) == IF k <= Len(env) THEN env[k] ELSE "ok"

\* what an HTTP request of url yields when the transport's draw is outcome:
\* the transport has no adapter for file URLs and serves only the pages of Urls
request(url, outcome) ==
    IF scheme_of(url) = "file" THEN "exception"
    ELSE IF url \notin Urls THEN "status"
    ELSE outcome


Min(a, b) == IF a < b THEN a ELSE b

\* value[:n]
Clip(value, n) == SubSeq(value, 1, Min(n, Len(value)))

(***************************************************************************)
(* Article.__init__                                                        *)
(***************************************************************************)
\* the title setter: value[: config.max_title] if value else ""
set_title(self, value) ==
    [self EXCEPT !.title =
        IF value # EmptyStr /\ value # NoneText THEN Clip(value, config.max_title)
        ELSE EmptyStr]

\* the text setter: value[: config.max_text] if value else ""
set_text(self, value) ==
    [self EXCEPT !.text =
        IF value # EmptyStr /\ value # NoneText THEN Clip(value, config.max_text)
        ELSE EmptyStr]

\* the html setter: marks the download successful and stores the value
set_html(self, value) ==
    [self EXCEPT !.download_state = SUCCESS,
                 !.html = IF value # "" /\ value # None THEN value ELSE ""]

\* the instance right after construction
NewArticle(url, title, read_more_link) ==
    [ url                    |-> url,
      original_url           |-> url,
      title                  |-> IF title # EmptyStr THEN Clip(title, config.max_title)
                                 ELSE EmptyStr,
      read_more_link         |-> read_more_link,
      text                   |-> EmptyStr,
      text_cleaned           |-> EmptyStr,
      keywords               |-> <<>>,
      keyword_scores         |-> <<>>,
      meta_keywords          |-> <<>>,
      authors                |-> <<>>,
      meta_lang              |-> None,
      summary                |-> EmptyStr,
      html                   |-> "",
      article_html           |-> EmptyStr,
      is_parsed              |-> FALSE,
      download_state         |-> NOT_STARTED,
      download_exception_msg |-> NoMsg,
      history                |-> <<>>,
      top_node               |-> NoneNode,
      clean_top_node         |-> NoneNode,
      top_node_complemented  |-> NoneNode,
      doc                    |-> NoneNode,
      clean_doc              |-> NoneNode,
      extractor              |-> [meta_type |-> "", top_node_complemented |-> NoneNode] ]

(***************************************************************************)
(* The download resolver                                                   *)
(***************************************************************************)
\* one entry of the call's fetch log
Fetch(kind, url, outcome) ==
    [kind |-> kind, url |-> url, ok |-> outcome = "ok", outcome |-> outcome]

\* Article._detect_protection: the vendor whose marker the body carries
_detect_protection(html) ==
    IF "cloudflare" \in MarkersIn(html) THEN "Cloudflare"
    ELSE IF "/cdn-cgi/challenge-platform/h/b/orchestrate/chl_page" \in MarkersIn(html)
         THEN "Cloudflare"
    ELSE IF "cloud-flare" \in MarkersIn(html) THEN "Cloudflare"
    ELSE IF "CloudFront" \in MarkersIn(html) THEN "CloudFront"
    ELSE IF "perimeterx" \in MarkersIn(html) THEN "PerimeterX"
    ELSE None

\* Article._parse_scheme_file: read a local file; an OSError is recorded
_parse_scheme_file(self, path, env, log) ==
    LET outcome == Draw(env, Len(log) + 1)
        log2 == Append(log, Fetch("primary", self.url, IF outcome = "exception"
                                                        THEN outcome ELSE "ok"))
    IN  IF outcome = "exception"
        THEN [ self |-> [self EXCEPT
                            !.download_state = FAILED_RESPONSE,
                            !.download_exception_msg = <<"OSError.strerror", 0, None, NoUrl>>],
               html |-> None, log |-> log2 ]
        ELSE [ self |-> self, html |-> PageAt(<<"file", "", path>>), log |-> log2 ]

\* the message of a response with status_code >= 400 (url: the parameter)
StatusMessage(html, status_code, url) ==
    IF _detect_protection(html) # None
    THEN <<"Website protected with {protection}, url: {url}", 0,
           _detect_protection(html), url>>
    ELSE <<"Status code {status_code} for url {url}", status_code, None, url>>

\* Article._parse_scheme_http: one request of `url or self.url`
_parse_scheme_http(self, url, kind, env, log) ==
    LET requested == IF url # NoUrl THEN url ELSE self.url
        outcome == request(requested, Draw(env, Len(log) + 1))
        log2 == Append(log, Fetch(kind, requested, outcome))
    IN  CASE outcome = "exception" ->
               [ self |-> [self EXCEPT
                            !.download_state = FAILED_RESPONSE,
                            !.download_exception_msg =
                                <<"str(RequestException)", 0, None, NoUrl>>],
                 html |-> None, log |-> log2 ]
          [] outcome = "status" ->
               [ self |-> [self EXCEPT
                            !.history = RedirectChain(requested),
                            !.download_state = FAILED_RESPONSE,
                            !.download_exception_msg =
                                StatusMessage(ErrorBodyAt(requested),
                                              ErrorStatusAt(requested), url)],
                 html |-> None, log |-> log2 ]
          [] outcome = "ok" ->
               [ self |-> [self EXCEPT !.history = RedirectChain(requested)],
                 html |-> PageAt(requested), log |-> log2 ]

\* network.get_html: the body of a successful request, "" for a failed one
get_html(url, env, log) ==
    LET outcome == request(url, Draw(env, Len(log) + 1))
    IN  [ html |-> IF outcome = "ok" THEN PageAt(url) ELSE "",
          log  |-> Append(log, Fetch("meta", url, outcome)) ]

\* (mutant) the recursion cap is off by one
follows_meta_refresh_M6(meta_refresh_url, recursion_counter) ==
    meta_refresh_url # NoUrl /\ recursion_counter < 2

\* the guard of the meta-refresh recursion
follows_meta_refresh(meta_refresh_url, recursion_counter) ==
    meta_refresh_url # NoUrl /\ recursion_counter < 1

\* if read_more_node.get("href")
has_href(read_more_node) == read_more_node # NoUrl

\* (mutant) the loop has no break: every node with an href is fetched
RECURSIVE read_more_loop_M7(_, _, _, _, _, _)
read_more_loop_M7(self, nodes, i, html, env, log) ==
    IF i > Len(nodes)
    THEN [ self |-> self, html |-> html, log |-> log ]
    ELSE IF has_href(nodes[i])
         THEN LET new_url == prepare_url(nodes[i], self.url)
                  got == _parse_scheme_http(self, new_url, "readmore", env, log)
              IN  IF got.html # None
                  THEN read_more_loop_M7([got.self EXCEPT !.url = new_url], nodes, i + 1,
                                         got.html, env, got.log)
                  ELSE read_more_loop_M7(got.self, nodes, i + 1, html, env, got.log)
         ELSE read_more_loop_M7(self, nodes, i + 1, html, env, log)

\* (mutant) only the first matching node is inspected
read_more_loop_M8(self, nodes, i, html, env, log) ==
    IF i > Len(nodes) \/ ~has_href(nodes[i])
    THEN [ self |-> self, html |-> html, log |-> log ]
    ELSE LET new_url == prepare_url(nodes[i], self.url)
             got == _parse_scheme_http(self, new_url, "readmore", env, log)
         IN  IF got.html # None
             THEN [ self |-> [got.self EXCEPT !.url = new_url],
                    html |-> got.html, log |-> got.log ]
             ELSE [ self |-> got.self, html |-> html, log |-> got.log ]

\* (mutant) a failed re-fetch falls back to the next node with an href
RECURSIVE read_more_loop_M9(_, _, _, _, _, _)
read_more_loop_M9(self, nodes, i, html, env, log) ==
    IF i > Len(nodes)
    THEN [ self |-> self, html |-> html, log |-> log ]
    ELSE IF has_href(nodes[i])
         THEN LET new_url == prepare_url(nodes[i], self.url)
                  got == _parse_scheme_http(self, new_url, "readmore", env, log)
              IN  IF got.html # None
                  THEN [ self |-> [got.self EXCEPT !.url = new_url],
                         html |-> got.html, log |-> got.log ]
                  ELSE read_more_loop_M9(got.self, nodes, i + 1, html, env, got.log)
         ELSE read_more_loop_M9(self, nodes, i + 1, html, env, log)

\* the loop over the nodes the read-more selector matches, from node i on
RECURSIVE read_more_loop(_, _, _, _, _, _)
read_more_loop(self, nodes, i, html, env, log) ==
    IF i > Len(nodes)
    THEN [ self |-> self, html |-> html, log |-> log ]
    ELSE IF has_href(nodes[i])
         THEN LET new_url == prepare_url(nodes[i], self.url)
                  got == _parse_scheme_http(self, new_url, "readmore", env, log)
              IN  IF got.html # None
                  THEN [ self |-> [got.self EXCEPT !.url = new_url],
                         html |-> got.html, log |-> got.log ]
                  ELSE [ self |-> got.self, html |-> html, log |-> got.log ]
         ELSE read_more_loop(self, nodes, i + 1, html, env, log)

\* the tail of download(): self.html = html, and the forced title
store_html(self, html, title) ==
    IF title # NoneText THEN set_title(set_html(self, html), title)
    ELSE set_html(self, html)

\* the read-more step of download() and what follows it
read_more_step(self, html, title, recursion_counter, ignore_read_more, env, log) ==
    IF ~ignore_read_more /\ self.read_more_link # ""
    THEN IF fromstring(html) = NoneNode
         THEN \* doc is None: doc.xpath raises AttributeError
              [ self |-> self, raised |-> "AttributeError", log |-> log,
                depth |-> recursion_counter, page |-> html ]
         ELSE LET r == read_more_loop(self, xpath(fromstring(html), self.read_more_link),
                                      1, html, env, log)
              IN  [ self |-> store_html(r.self, r.html, title), raised |-> "none",
                    log |-> r.log, depth |-> recursion_counter, page |-> html ]
    ELSE [ self |-> store_html(self, html, title), raised |-> "none", log |-> log,
           depth |-> recursion_counter, page |-> html ]

\* Article.download
RECURSIVE download(_, _, _, _, _, _, _)
download(self, input_html, title, recursion_counter, ignore_read_more, env, log) ==
    LET got == IF input_html = None
               THEN IF scheme_of(self.url) = "file"
                    THEN _parse_scheme_file(self, path_of(self.url), env, log)
                    ELSE _parse_scheme_http(self, NoUrl, "primary", env, log)
               ELSE [ self |-> self, html |-> input_html, log |-> log ]
        meta_refresh_url == IF config.follow_meta_refresh
                            THEN extract_meta_refresh(got.html) ELSE NoUrl
    IN  IF got.html = None
        THEN [ self |-> got.self, raised |-> "none", log |-> got.log,
               depth |-> recursion_counter, page |-> None ]
        ELSE IF config.follow_meta_refresh
                /\ follows_meta_refresh(meta_refresh_url, recursion_counter)
             THEN LET target == get_html(meta_refresh_url, env, got.log)
                  IN  download(got.self, target.html, NoneText, recursion_counter + 1,
                               FALSE, env, target.log)
             ELSE read_more_step(got.self, got.html, title, recursion_counter,
                                 ignore_read_more, env, got.log)


(***************************************************************************)
(* The parse pipeline                                                      *)
(***************************************************************************)
\* extractor.get_title(clean_doc): the title found in the page ("" if none)
get_title(clean_doc) ==
    IF clean_doc = <<"tree", "hD">> THEN <<"D", " ", "p", "a", "g", "e">> ELSE EmptyStr

\* extractor.get_metadata(url, clean_doc)["type"]
get_meta_type(clean_doc) ==
    IF clean_doc = <<"tree", "hD">> THEN "article" ELSE ""

\* extractor.get_metadata(url, clean_doc)["language"]: the language the page
\* declares
get_meta_language(clean_doc) ==
    CASE clean_doc = <<"tree", "hD">> -> "de"
      [] clean_doc = <<"tree", "hE">> -> "xx"
      [] OTHER -> None

\* config.language of a new Configuration
DefaultLanguage == "en"

\* languages.get_available_languages(): the languages with stopword lists
get_available_languages == {"en", "de"}

\* extractor.get_authors(clean_doc): the authors named in the page
get_authors(clean_doc) ==
    CASE clean_doc = <<"tree", "hD">> -> <<"ann", "bob", "cy", "di">>
      [] clean_doc = <<"tree", "hE">> -> <<"eve">>
      [] OTHER -> <<>>

\* extractor.get_metadata(url, clean_doc)["keywords"]: the page's meta keywords
get_meta_keywords(clean_doc) ==
    CASE clean_doc = <<"tree", "hD">> -> <<"k1", "k2", "k3", "k4">>
      [] clean_doc = <<"tree", "hE">> -> <<"k1">>
      [] OTHER -> <<>>

\* readability's Document(html).summary(): the reduced html
html_readability(html) == <<"summary", html>>

\* the elements of the reduced html of a page, in document order: the tag and
\* the text content of each
ReducedElements(html) ==
    CASE html = "hD" -> << <<"div", EmptyStr>>,
                           <<"p", <<"d", " ", "d", ".", " ", "d">> >> >>
      [] html = "hE" -> << <<"p", <<"e", ".">> >> >>
      [] OTHER -> << <<"div", EmptyStr>> >>

\* parsers.fromstring of the reduced html: a tree is the sequence of its
\* elements in document order, each with its tag, text and attribute names
fromstring_readability(summary) ==
    [i \in 1..Len(ReducedElements(summary[2])) |->
        [ tag   |-> ReducedElements(summary[2])[i][1],
          text  |-> ReducedElements(summary[2])[i][2],
          attrs |-> {} ]]

\* the elements of the whole page, as the cleaner leaves them, in document
\* order: the tag and the text content of each
CleanedElements(html) ==
    CASE html = "hD" -> << <<"body", EmptyStr>>, <<"div", EmptyStr>>,
                           <<"p", <<"c", " ", "d", ".", " ", "d">> >> >>
      [] html = "hE" -> << <<"body", EmptyStr>>, <<"p", <<"e", ".">> >> >>
      [] OTHER -> << <<"body", EmptyStr>> >>

\* document_cleaner.clean(tree): the tree, cleaned in place.  The cleaned copy
\* of the page's tree is the sequence of its elements; a cleaned detached node
\* is the node, marked cleaned
clean(tree) ==
    IF tree = NoneNode THEN NoneNode
    ELSE IF tree[1] = "tree"
    THEN [i \in 1..Len(CleanedElements(tree[2])) |->
            [ tag   |-> CleanedElements(tree[2])[i][1],
              text  |-> CleanedElements(tree[2])[i][2],
              attrs |-> {} ]]
    ELSE <<"cleaned", tree>>

\* the positions of the paragraph elements of a tree
Paragraphs(doc) == {i \in 1..Len(doc) : doc[i].tag = "p"}

\* extractor.calculate_best_node(doc): the selected node, a reference into
\* that tree (the position of the element), None if nothing is selected
calculate_best_node(doc) ==
    IF doc # NoneNode /\ Paragraphs(doc) # {}
    THEN <<"node", CHOOSE i \in Paragraphs(doc) : \A j \in Paragraphs(doc) : i <= j>>
    ELSE NoneNode

\* extractor.top_node_complemented after a selection on doc that picked
\* top_node: a detached node with the content of the selected one
top_node_complemented_of(doc, top_node) ==
    IF top_node # NoneNode THEN <<"complemented", doc[top_node[2]].text>>
    ELSE NoneNode

\* the extractor after extractor.calculate_best_node(doc): it keeps the
\* complemented node of its most recent selection
select(extractor, doc) ==
    [extractor EXCEPT !.top_node_complemented =
        top_node_complemented_of(doc, calculate_best_node(doc))]

\* the text content of a node: of a detached node (cleaned, marked or not),
\* or of the node of the tree doc a reference points to
RECURSIVE text_content(_, _)
text_content(node, doc) ==
    CASE node = NoneNode -> EmptyStr
      [] node[1] = "node" -> doc[node[2]].text
      [] node[1] = "complemented" -> node[2]
      [] OTHER -> text_content(node[2], doc)

\* output_formatter.get_formatted(node, title)[0]: the text of a node
get_formatted_text(node, doc) == text_content(node, doc)

\* output_formatter.get_formatted(node, title)[1]: the html of a node
get_formatted_html(node, doc) ==
    IF node = NoneNode THEN EmptyStr
    ELSE <<"<", "p", ">">> \o text_content(node, doc) \o <<"<", "/", "p", ">">>

\* (mutant) the check forgets the FAILED_RESPONSE branch
throw_if_not_downloaded_verbose_M1(self) ==
    IF self.download_state = NOT_STARTED
    THEN "You must download() an article first!"
    ELSE None

\* Article.throw_if_not_downloaded_verbose: the message raised, None if none
throw_if_not_downloaded_verbose(self) ==
    IF self.download_state = NOT_STARTED
    THEN "You must download() an article first!"
    ELSE IF self.download_state = FAILED_RESPONSE
         THEN "Article download() failed with %s on URL %s"
         ELSE None

\* Article.throw_if_not_parsed_verbose: the message raised, None if none
throw_if_not_parsed_verbose(self) ==
    IF ~self.is_parsed THEN "You must parse() an article first!" ELSE None

\* (mutant) the early return for html without a tree does not mark the
\* Article parsed
parse_body_M12(self) ==
    LET doc0 == fromstring(self.html)
        title == get_title(doc0)
        s1 == [set_title(self, title) EXCEPT
                  !.authors = Clip(get_authors(doc0), config.max_authors),
                  !.meta_lang = IF get_meta_language(doc0) \in get_available_languages
                                THEN get_meta_language(doc0) ELSE @,
                  !.extractor.meta_type = get_meta_type(doc0),
                  !.meta_keywords = get_meta_keywords(doc0)]
        doc == fromstring_readability(html_readability(self.html))
        clean_doc == clean(doc0)
        \* the selection on doc, then the one on clean_doc
        on_doc == select(s1.extractor, doc)
        on_clean == select(on_doc, clean_doc)
        top_node == calculate_best_node(doc)
        s2 == [s1 EXCEPT !.doc = doc, !.clean_doc = clean_doc,
                         !.top_node = top_node,
                         !.top_node_complemented = on_doc.top_node_complemented,
                         !.clean_top_node = calculate_best_node(clean_doc),
                         !.extractor = on_clean]
        s3 == IF top_node # NoneNode
              THEN [set_text([s2 EXCEPT
                        !.top_node_complemented = clean(s2.top_node_complemented),
                        !.article_html =
                            get_formatted_html(clean(s2.top_node_complemented), doc)],
                      get_formatted_text(clean(s2.top_node_complemented), doc))
                    EXCEPT !.text_cleaned =
                        Clip(get_formatted_text(s2.clean_top_node, clean_doc),
                             config.max_text)]
              ELSE s2
    IN  IF doc0 = NoneNode
        THEN [self EXCEPT !.doc = NoneNode, !.clean_doc = NoneNode]
        ELSE [s3 EXCEPT !.is_parsed = TRUE]

\* (mutant) the complemented node is read from the extractor after the
\* selection on clean_doc
parse_body_M24(self) ==
    LET doc0 == fromstring(self.html)
        title == get_title(doc0)
        s1 == [set_title(self, title) EXCEPT
                  !.authors = Clip(get_authors(doc0), config.max_authors),
                  !.meta_lang = IF get_meta_language(doc0) \in get_available_languages
                                THEN get_meta_language(doc0) ELSE @,
                  !.extractor.meta_type = get_meta_type(doc0),
                  !.meta_keywords = get_meta_keywords(doc0)]
        doc == fromstring_readability(html_readability(self.html))
        clean_doc == clean(doc0)
        \* the selection on doc, then the one on clean_doc
        on_doc == select(s1.extractor, doc)
        on_clean == select(on_doc, clean_doc)
        top_node == calculate_best_node(doc)
        s2 == [s1 EXCEPT !.doc = doc, !.clean_doc = clean_doc,
                         !.top_node = top_node,
                         !.top_node_complemented = on_clean.top_node_complemented,
                         !.clean_top_node = calculate_best_node(clean_doc),
                         !.extractor = on_clean]
        s3 == IF top_node # NoneNode
              THEN [set_text([s2 EXCEPT
                        !.top_node_complemented = clean(s2.top_node_complemented),
                        !.article_html =
                            get_formatted_html(clean(s2.top_node_complemented), doc)],
                      get_formatted_text(clean(s2.top_node_complemented), doc))
                    EXCEPT !.text_cleaned =
                        Clip(get_formatted_text(s2.clean_top_node, clean_doc),
                             config.max_text)]
              ELSE s2
    IN  IF doc0 = NoneNode
        THEN [self EXCEPT !.doc = NoneNode, !.clean_doc = NoneNode, !.is_parsed = TRUE]
        ELSE [s3 EXCEPT !.is_parsed = TRUE]

\* parse() from self.doc = parsers.fromstring(self.html) on
parse_body(self) ==
    LET doc0 == fromstring(self.html)
        title == get_title(doc0)
        s1 == [set_title(self, title) EXCEPT
                  !.authors = Clip(get_authors(doc0), config.max_authors),
                  !.meta_lang = IF get_meta_language(doc0) \in get_available_languages
                                THEN get_meta_language(doc0) ELSE @,
                  !.extractor.meta_type = get_meta_type(doc0),
                  !.meta_keywords = get_meta_keywords(doc0)]
        doc == fromstring_readability(html_readability(self.html))
        clean_doc == clean(doc0)
        \* the selection on doc, then the one on clean_doc
        on_doc == select(s1.extractor, doc)
        on_clean == select(on_doc, clean_doc)
        top_node == calculate_best_node(doc)
        s2 == [s1 EXCEPT !.doc = doc, !.clean_doc = clean_doc,
                         !.top_node = top_node,
                         !.top_node_complemented = on_doc.top_node_complemented,
                         !.clean_top_node = calculate_best_node(clean_doc),
                         !.extractor = on_clean]
        s3 == IF top_node # NoneNode
              THEN [set_text([s2 EXCEPT
                        !.top_node_complemented = clean(s2.top_node_complemented),
                        !.article_html =
                            get_formatted_html(clean(s2.top_node_complemented), doc)],
                      get_formatted_text(clean(s2.top_node_complemented), doc))
                    EXCEPT !.text_cleaned =
                        Clip(get_formatted_text(s2.clean_top_node, clean_doc),
                             config.max_text)]
              ELSE s2
    IN  IF doc0 = NoneNode
        THEN [self EXCEPT !.doc = NoneNode, !.clean_doc = NoneNode, !.is_parsed = TRUE]
        ELSE [s3 EXCEPT !.is_parsed = TRUE]

\* the configuration after parse(): self.config.language = metadata["language"]
\* when the language is available and use_meta_language is set
adopt_language(self) ==
    IF fromstring(self.html) # NoneNode
       /\ get_meta_language(fromstring(self.html)) \in get_available_languages
       /\ config.use_meta_language
    THEN [config EXCEPT !.language = get_meta_language(fromstring(self.html))]
    ELSE config

\* Article.parse: the Article and the configuration it holds after the call
parse(self) ==
    IF throw_if_not_downloaded_verbose(self) # None
    THEN [ self |-> self, raised |-> throw_if_not_downloaded_verbose(self),
           config |-> config ]
    ELSE [ self |-> parse_body(self), raised |-> "none",
           config |-> adopt_language(self) ]


(***************************************************************************)
(* The NLP postprocessor.  A score map is an insertion-ordered dict: a     *)
(* sequence of <<keyword, score>> pairs; scores are in twentieths.         *)
(***************************************************************************)
\* nlp.keywords(text, stopwords, max_keywords) on the body text
text_keywords(text) ==
    IF text = EmptyStr THEN <<>> ELSE << <<"a", 16>>, <<"b", 8>> >>

\* nlp.keywords(title, stopwords, max_keywords) on the title
title_keywords(title) ==
    IF title = EmptyStr THEN <<>> ELSE << <<"a", 4>>, <<"c", 10>> >>

\* k in keywords
HasKey(keywords, k) == \E i \in 1..Len(keywords) : keywords[i][1] = k

\* (mutant) the scores of a shared key are added and not halved
merge_one_M17(keywords, k, v) ==
    IF HasKey(keywords, k)
    THEN [i \in 1..Len(keywords) |->
            IF keywords[i][1] = k THEN <<k, keywords[i][2] + v>>
            ELSE keywords[i]]
    ELSE Append(keywords, <<k, v>>)

\* one round of the merge loop: keywords[k] += v; keywords[k] /= 2, or insert
merge_one(keywords, k, v) ==
    IF HasKey(keywords, k)
    THEN [i \in 1..Len(keywords) |->
            IF keywords[i][1] = k THEN <<k, (keywords[i][2] + v) \div 2>>
            ELSE keywords[i]]
    ELSE Append(keywords, <<k, v>>)

\* the merge loop over the title's keywords, from entry i on
RECURSIVE merge_keywords(_, _, _)
merge_keywords(keywords, title_kw, i) ==
    IF i > Len(title_kw) THEN keywords
    ELSE merge_keywords(merge_one(keywords, title_kw[i][1], title_kw[i][2]),
                        title_kw, i + 1)

\* x inserted into a list sorted by score descending, after its equals
RECURSIVE insert_sorted(_, _)
insert_sorted(sorted, x) ==
    IF sorted = <<>> THEN <<x>>
    ELSE IF Head(sorted)[2] >= x[2] THEN <<Head(sorted)>> \o insert_sorted(Tail(sorted), x)
    ELSE <<x>> \o sorted

\* sorted(items, key=score, reverse=True): stable
RECURSIVE sorted_desc(_)
sorted_desc(items) ==
    IF items = <<>> THEN <<>>
    ELSE insert_sorted(sorted_desc(SubSeq(items, 1, Len(items) - 1)), items[Len(items)])

\* nlp.summarize(title, text, stopwords, max_sents): the summary sentences
summarize(title, text) == IF text = EmptyStr THEN <<>> ELSE <<text, title>>

\* "\n".join(sentences)
RECURSIVE join_lines(_)
join_lines(sents) ==
    IF sents = <<>> THEN EmptyStr
    ELSE IF Len(sents) = 1 THEN sents[1]
    ELSE sents[1] \o <<"\n">> \o join_lines(Tail(sents))

\* the summary setter: value[: config.max_summary] if value else ""
set_summary(self, value) ==
    [self EXCEPT !.summary =
        IF value # EmptyStr /\ value # NoneText THEN Clip(value, config.max_summary)
        ELSE EmptyStr]

\* Article.nlp
nlp(self) ==
    IF throw_if_not_downloaded_verbose(self) # None
    THEN [ self |-> self, raised |-> throw_if_not_downloaded_verbose(self) ]
    ELSE IF throw_if_not_parsed_verbose(self) # None
    THEN [ self |-> self, raised |-> throw_if_not_parsed_verbose(self) ]
    ELSE LET merged == merge_keywords(text_keywords(self.text),
                                      title_keywords(self.title), 1)
             keywords == Clip(sorted_desc(merged), config.max_keywords)
         IN  [ self |-> set_summary(
                          [self EXCEPT
                             !.keywords = [i \in 1..Len(keywords) |-> keywords[i][1]],
                             !.keyword_scores = keywords],
                          join_lines(summarize(self.title, self.text))),
               raised |-> "none" ]

\* StopWords(self.config.language): the language whose stopwords nlp() loads
stopwords_language(self) == config.language

(***************************************************************************)
(* The validity classifier and the JSON export                             *)
(***************************************************************************)
\* len(value.split(sep))
RECURSIVE split_count(_, _)
split_count(value, sep) ==
    IF value = EmptyStr THEN 1
    ELSE (IF Head(value) = sep THEN 1 ELSE 0) + split_count(Tail(value), sep)

\* URLs of media pages and of pages that only look like them
uV == <<"http", "s", "/video">>
uW == <<"http", "s", "/Video">>
uG == <<"http", "fashion", "/a">>

\* the characters of the strings URLs are made of
Chars(str) ==
    CASE str = "http" -> <<"h", "t", "t", "p">>
      [] str = "file" -> <<"f", "i", "l", "e">>
      [] str = "s" -> <<"s">>
      [] str = "fashion" -> <<"f", "a", "s", "h", "i", "o", "n">>
      [] str = "" -> <<>>
      [] str = "/a" -> <<"/", "a">>
      [] str = "/b" -> <<"/", "b">>
      [] str = "/c" -> <<"/", "c">>
      [] str = "/d" -> <<"/", "d">>
      [] str = "/e" -> <<"/", "e">>
      [] str = "/f" -> <<"/", "f">>
      [] str = "/video" -> <<"/", "v", "i", "d", "e", "o">>
      [] str = "/Video" -> <<"/", "V", "i", "d", "e", "o">>

\* the url as the str the Article holds: scheme://domain/path
url_str(url) == Chars(url[1]) \o <<":", "/", "/">> \o Chars(url[2]) \o Chars(url[3])

\* s in text
Contains(text, sub) ==
    \E i \in 1..(Len(text) - Len(sub) + 1) : SubSeq(text, i, i + Len(sub) - 1) = sub

\* the marker substrings of is_media_news
safe_urls ==
    << <<"/", "v", "i", "d", "e", "o">>,
       <<"/", "s", "l", "i", "d", "e">>,
       <<"/", "g", "a", "l", "l", "e", "r", "y">>,
       <<"/", "p", "o", "w", "e", "r", "p", "o", "i", "n", "t">>,
       <<"/", "f", "a", "s", "h", "i", "o", "n">>,
       <<"/", "g", "l", "a", "m", "o", "u", "r">>,
       <<"/", "c", "l", "o", "t", "h">> >>

\* Article.is_media_news: the url contains one of the marker substrings
is_media_news(self) ==
    \E i \in 1..Len(safe_urls) : Contains(url_str(self.url), safe_urls[i])

\* (mutant) rule 1 accepts a word count equal to the minimum
is_valid_body_M20(self) ==
    LET wordcount == split_count(self.text, " ")
        sentcount == split_count(self.text, ".")
        value ==
            IF self.extractor.meta_type = "article" /\ wordcount >= config.min_word_count
            THEN TRUE
            ELSE IF ~is_media_news(self) /\ self.text = EmptyStr THEN FALSE
            ELSE IF self.title = NoneText \/ split_count(self.title, " ") < 2 THEN FALSE
            ELSE IF wordcount < config.min_word_count THEN FALSE
            ELSE IF sentcount < config.min_sent_count THEN FALSE
            ELSE IF self.html = None \/ self.html = "" THEN FALSE
            ELSE TRUE
    IN  IF ~self.is_parsed
        THEN [ raised |-> "must parse article before checking if it's body is valid!",
               value |-> "none" ]
        ELSE [ raised |-> "none", value |-> IF value THEN "True" ELSE "False" ]

\* Article.is_valid_body: what it raises, and what it returns
is_valid_body(self) ==
    LET wordcount == split_count(self.text, " ")
        sentcount == split_count(self.text, ".")
        value ==
            IF self.extractor.meta_type = "article" /\ wordcount > config.min_word_count
            THEN TRUE
            ELSE IF ~is_media_news(self) /\ self.text = EmptyStr THEN FALSE
            ELSE IF self.title = NoneText \/ split_count(self.title, " ") < 2 THEN FALSE
            ELSE IF wordcount < config.min_word_count THEN FALSE
            ELSE IF sentcount < config.min_sent_count THEN FALSE
            ELSE IF self.html = None \/ self.html = "" THEN FALSE
            ELSE TRUE
    IN  IF ~self.is_parsed
        THEN [ raised |-> "must parse article before checking if it's body is valid!",
               value |-> "none" ]
        ELSE [ raised |-> "none", value |-> IF value THEN "True" ELSE "False" ]

\* Article.to_json: what it raises, and what it returns
to_json(self) ==
    IF throw_if_not_parsed_verbose(self) # None
    THEN [ raised |-> throw_if_not_parsed_verbose(self), value |-> "none" ]
    ELSE [ raised |-> "none", value |-> "json" ]

(***************************************************************************)
(* The serialization controller: __getstate__ and __setstate__             *)
(***************************************************************************)
\* the sentinel attributes written onto the two nodes
TopNodeMark == "__newspaper_top_node"
ComplementedMark == "__newspaper_top_node_complemented"

\* the attributes __getstate__ pops from the copy of __dict__
Popped ==
    {"extractor", "top_node", "clean_top_node", "top_node_complemented", "doc",
     "clean_doc"}

\* node.set(name, "xxx") on a node of the tree doc
set_attr(doc, node, name) == [doc EXCEPT ![node[2]].attrs = @ \cup {name}]

\* node.set(name, "xxx") on a node that is in no tree
set_attr_detached(node, name) ==
    IF node[1] = name THEN node ELSE <<name, node>>

\* parsers.node_to_string(doc): the markup of a tree, element by element: the
\* tag, the attributes written in it, the text
node_to_string(doc) ==
    [i \in 1..Len(doc) |-> <<doc[i].tag, doc[i].attrs, doc[i].text>>]

\* parsers.fromstring of the markup written by node_to_string
fromstring_doc_html(doc_html) ==
    IF doc_html = <<>> THEN NoneNode
    ELSE [i \in 1..Len(doc_html) |->
            [ tag |-> doc_html[i][1], text |-> doc_html[i][3],
              attrs |-> doc_html[i][2] ]]

\* parsers.get_elements_by_attribs(doc, attribs={name: "xxx"}): the nodes of
\* doc carrying the attribute, in document order, from position i on
RECURSIVE get_elements_by_attribs(_, _, _)
get_elements_by_attribs(doc, name, i) ==
    IF i > Len(doc) THEN <<>>
    ELSE (IF name \in doc[i].attrs THEN << <<"node", i>> >> ELSE <<>>)
         \o get_elements_by_attribs(doc, name, i + 1)

\* where a call returns no snapshot
NoState == <<>>

\* (mutant) the top node is not marked before the tree is written out
__getstate___M18(self) ==
    LET parsed == self.download_state = SUCCESS /\ self.top_node # NoneNode
        keys == ((DOMAIN self) \ Popped) \cup {"__parsed_state"}
                  \cup (IF parsed THEN {"_doc_html"} ELSE {})
    IN  [ self |-> self, raised |-> "none",
          state |-> [k \in keys |->
                       CASE k = "__parsed_state" -> parsed
                         [] k = "_doc_html" -> node_to_string(self.doc)
                         [] OTHER -> self[k]] ]

\* (mutant) the live tree handles stay in the snapshot
__getstate___M19(self) ==
    [ self |-> self, raised |-> "none",
      state |-> [k \in (DOMAIN self) \cup {"__parsed_state"} |->
                   IF k = "__parsed_state" THEN FALSE ELSE self[k]] ]

\* Article.__getstate__: the Article after the call (the marks are written
\* onto its live nodes), what the call raised, and the snapshot it returned
__getstate__(self) ==
    LET parsed == self.download_state = SUCCESS /\ self.top_node # NoneNode
        keys == ((DOMAIN self) \ Popped) \cup {"__parsed_state"}
                  \cup (IF parsed THEN {"_doc_html"} ELSE {})
        \* self.top_node.set(...): top_node is a node of self.doc, unless doc
        \* was reset by a later parse() that found no tree
        marked1 == IF self.doc = NoneNode THEN self
                   ELSE [self EXCEPT !.doc = set_attr(@, self.top_node, TopNodeMark)]
        marked2 == [marked1 EXCEPT !.top_node_complemented =
                                      set_attr_detached(@, ComplementedMark)]
        state == [k \in keys |->
                    CASE k = "__parsed_state" -> parsed
                      [] k = "_doc_html" -> node_to_string(marked2.doc)
                      [] OTHER -> self[k]]
    IN  IF ~parsed THEN [ self |-> self, raised |-> "none", state |-> state ]
        ELSE IF self.top_node_complemented = NoneNode
        THEN [ self |-> marked1, raised |-> "AttributeError", state |-> NoState ]
        ELSE IF self.doc = NoneNode
        THEN [ self |-> marked2, raised |-> "TypeError", state |-> NoState ]
        ELSE [ self |-> marked2, raised |-> "none", state |-> state ]

\* Article.__setstate__ on a new instance: the Article restored from a snapshot
__setstate__(state) ==
    LET doc == IF state["__parsed_state"]
               THEN fromstring_doc_html(state["_doc_html"]) ELSE NoneNode
        tops == IF doc = NoneNode THEN <<>>
                ELSE get_elements_by_attribs(doc, TopNodeMark, 1)
        complemented == IF doc = NoneNode THEN <<>>
                        ELSE get_elements_by_attribs(doc, ComplementedMark, 1)
    IN  [k \in ((DOMAIN state) \ {"__parsed_state", "_doc_html"}) \cup Popped |->
           CASE k = "extractor" -> [meta_type |-> "", top_node_complemented |-> NoneNode]
             [] k = "doc" -> doc
             [] k = "top_node" -> IF tops # <<>> THEN tops[1] ELSE NoneNode
             [] k = "top_node_complemented" ->
                  IF complemented # <<>> THEN complemented[1] ELSE NoneNode
             [] k \in {"clean_top_node", "clean_doc"} -> NoneNode
             [] OTHER -> state[k]]

(***************************************************************************)
(* The state machine: one caller works on one Article                      *)
(***************************************************************************)
\* the record of a call
Call(op, raised, value) ==
    [ op |-> op, raised |-> raised, value |-> value, input_html |-> None,
      ignore_read_more |-> FALSE, fetches |-> <<>>, depth |-> 0, page |-> None,
      state |-> NoState, on |-> "art", language |-> None ]

Configurations ==
    [ follow_meta_refresh : BOOLEAN,
      max_title : {MaxTitle}, max_text : {MaxText}, max_summary : {MaxSummary},
      max_keywords : {MaxKeywords}, max_authors : {MaxAuthors},
      min_word_count : {MinWordCount}, min_sent_count : {MinSentCount},
      language : {DefaultLanguage}, use_meta_language : {TRUE} ]

Init ==
    /\ config \in Configurations
    /\ \E url \in StartUrls, title \in InitTitles, read_more_link \in Selectors :
         art = NewArticle(url, title, read_more_link)
    /\ ret = Call("__init__", "none", "none")
    /\ peer = NoPeer

\* the answers the transport can give to the fetches of one download() call:
\* every sequence of outcomes as long as the number of fetches the call issues
RECURSIVE Envs(_, _, _, _, _)
Envs(self, input_html, title, ignore_read_more, env) ==
    IF Len(download(self, input_html, title, 0, ignore_read_more, env, <<>>).log)
         <= Len(env)
    THEN {env}
    ELSE UNION { Envs(self, input_html, title, ignore_read_more, Append(env, o)) :
                 o \in Outcomes }

\* a download() call with its arguments drawn from the given sets
DownloadWith(input_htmls, titles, flags) ==
    \E input_html \in input_htmls, title \in titles, ignore_read_more \in flags :
      \E env \in Envs(art, input_html, title, ignore_read_more, <<>>) :
      LET r == download(art, input_html, title, 0, ignore_read_more, env, <<>>)
      IN  /\ art' = r.self
          /\ ret' = [ Call("download", r.raised, "none") EXCEPT
                        !.input_html = input_html,
                        !.ignore_read_more = ignore_read_more,
                        !.fetches = r.log, !.depth = r.depth, !.page = r.page ]
          /\ UNCHANGED <<config, peer>>

\* download() with any of the modelled arguments
Download == DownloadWith(InputHtmls, ForcedTitles, BOOLEAN)

\* download() of the article's url, or of an empty cached page, without a title
\* and without suppressing the read-more handling
DownloadUrl == DownloadWith({None, ""}, {NoneText}, {FALSE})

Parse ==
    /\ art' = parse(art).self
    /\ config' = parse(art).config
    /\ ret' = Call("parse", parse(art).raised, "none")
    /\ UNCHANGED peer

Nlp ==
    /\ art' = nlp(art).self
    /\ ret' = [ Call("nlp", nlp(art).raised, "none") EXCEPT
                  !.language = IF nlp(art).raised = "none"
                               THEN stopwords_language(art) ELSE None ]
    /\ UNCHANGED <<config, peer>>

IsValidBody ==
    /\ ret' = Call("is_valid_body", is_valid_body(art).raised, is_valid_body(art).value)
    /\ UNCHANGED <<art, config, peer>>

ToJson ==
    /\ ret' = Call("to_json", to_json(art).raised, to_json(art).value)
    /\ UNCHANGED <<art, config, peer>>

\* pickling the Article: the caller keeps the snapshot
GetState ==
    /\ art' = __getstate__(art).self
    /\ ret' = [ Call("__getstate__", __getstate__(art).raised, "none") EXCEPT
                  !.state = __getstate__(art).state ]
    /\ UNCHANGED <<config, peer>>

\* unpickling the snapshot just taken: the caller goes on with the restored
\* Article
SetState ==
    /\ ret.op = "__getstate__" /\ ret.raised = "none"
    /\ art' = __setstate__(ret.state)
    /\ ret' = Call("__setstate__", "none", "none")
    /\ UNCHANGED <<config, peer>>

Next ==
    \/ DownloadUrl
    \/ Parse
    \/ Nlp
    \/ IsValidBody
    \/ ToJson
    \/ GetState
    \/ SetState

\* the whole lifecycle of one Article
Spec == Init /\ [][Next]_vars

\* values a caller assigns to title, text, text_cleaned and summary: a short
\* one and one longer than every configured maximum
AssignedValues == { <<"x">>, <<"l", "o", "n", "g", "e", "r", "!">> }

\* article.title = value
AssignTitle ==
    \E value \in AssignedValues :
      /\ art' = set_title(art, value)
      /\ ret' = Call("title=", "none", "none")
      /\ UNCHANGED <<config, peer>>

\* article.text = value
AssignText ==
    \E value \in AssignedValues :
      /\ art' = set_text(art, value)
      /\ ret' = Call("text=", "none", "none")
      /\ UNCHANGED <<config, peer>>

\* article.text_cleaned = value: a plain attribute, no setter
AssignTextCleaned ==
    \E value \in AssignedValues :
      /\ art' = [art EXCEPT !.text_cleaned = value]
      /\ ret' = Call("text_cleaned=", "none", "none")
      /\ UNCHANGED <<config, peer>>

\* article.summary = value
AssignSummary ==
    \E value \in AssignedValues :
      /\ art' = set_summary(art, value)
      /\ ret' = Call("summary=", "none", "none")
      /\ UNCHANGED <<config, peer>>

\* download() of the article's url with or without a forced title
DownloadTitled == DownloadWith({None}, ForcedTitles, {FALSE})

\* one Article for http://s/d, without read-more selector
InitFields ==
    /\ config \in {c \in Configurations : ~c.follow_meta_refresh}
    /\ \E title \in InitTitles : art = NewArticle(uD, title, "")
    /\ ret = Call("__init__", "none", "none")
    /\ peer = NoPeer

NextFields ==
    \/ DownloadTitled
    \/ Parse
    \/ Nlp
    \/ AssignTitle
    \/ AssignText
    \/ AssignTextCleaned
    \/ AssignSummary
    \/ GetState
    \/ SetState

\* all character sequences over an alphabet, up to a length
SeqsUpTo(alphabet, n) == UNION {[1..k -> alphabet] : k \in 0..n}

\* a parsed Article with any url, title, text, html and metadata type that
\* construction, download, parse and assignments can leave it with
InitValid ==
    /\ config \in {c \in Configurations : ~c.follow_meta_refresh}
    /\ \E url \in {uD, uV, uW, uG}, html \in {"", "hD"}, meta_type \in {"", "article"},
          title \in SeqsUpTo({"t", " "}, MaxTitle),
          text \in SeqsUpTo({"a", " ", "."}, MaxText) :
         art = [NewArticle(url, EmptyStr, "") EXCEPT
                  !.title = title, !.text = text, !.html = html,
                  !.download_state = SUCCESS, !.is_parsed = TRUE,
                  !.extractor.meta_type = meta_type]
    /\ ret = Call("parse", "none", "none")
    /\ peer = NoPeer

\* the validity classifier on every parsed Article
SpecValid == InitValid /\ [][IsValidBody]_vars

\* a parsed Article for a plain or a media url, with any text and either
\* metadata type
InitRestore ==
    /\ config \in {c \in Configurations : ~c.follow_meta_refresh}
    /\ \E url \in {uD, uV}, meta_type \in {"", "article"},
          title \in {EmptyStr, <<"t", " ", "t">>},
          text \in SeqsUpTo({"a", " ", "."}, MaxText) :
         art = [NewArticle(url, EmptyStr, "") EXCEPT
                  !.title = title, !.text = text, !.html = "hD",
                  !.download_state = SUCCESS, !.is_parsed = TRUE,
                  !.extractor.meta_type = meta_type]
    /\ ret = Call("parse", "none", "none")
    /\ peer = NoPeer

NextRestore ==
    \/ IsValidBody
    \/ GetState
    \/ SetState

\* the validity classifier on parsed Articles and on their restored snapshots
SpecRestore == InitRestore /\ [][NextRestore]_vars

\* configurations with either setting of use_meta_language
SharedConfigurations ==
    { [c EXCEPT !.use_meta_language = use_meta_language] :
        c \in {c \in Configurations : ~c.follow_meta_refresh},
        use_meta_language \in BOOLEAN }

\* two Articles constructed with one Configuration object: one for a page in
\* an available language, one for a page in a language that is not available
InitShared ==
    /\ config \in SharedConfigurations
    /\ art = NewArticle(uD, EmptyStr, "")
    /\ peer = NewArticle(uE, EmptyStr, "")
    /\ ret = Call("__init__", "none", "none")

\* download() of the article's own url
DownloadOwn == DownloadWith({None}, {NoneText}, {FALSE})

\* peer.download()
PeerDownload ==
    \E env \in Envs(peer, None, NoneText, FALSE, <<>>) :
      LET r == download(peer, None, NoneText, 0, FALSE, env, <<>>)
      IN  /\ peer' = r.self
          /\ ret' = [ Call("download", r.raised, "none") EXCEPT
                        !.on = "peer",
                        !.fetches = r.log, !.depth = r.depth, !.page = r.page ]
          /\ UNCHANGED <<art, config>>

\* peer.parse()
PeerParse ==
    /\ peer' = parse(peer).self
    /\ config' = parse(peer).config
    /\ ret' = [ Call("parse", parse(peer).raised, "none") EXCEPT !.on = "peer" ]
    /\ UNCHANGED art

\* peer.nlp()
PeerNlp ==
    /\ peer' = nlp(peer).self
    /\ ret' = [ Call("nlp", nlp(peer).raised, "none") EXCEPT
                  !.on = "peer",
                  !.language = IF nlp(peer).raised = "none"
                               THEN stopwords_language(peer) ELSE None ]
    /\ UNCHANGED <<art, config>>

NextShared ==
    \/ DownloadOwn
    \/ Parse
    \/ Nlp
    \/ PeerDownload
    \/ PeerParse
    \/ PeerNlp

\* the lifecycles of two Articles that share their configuration, interleaved
SpecShared == InitShared /\ [][NextShared]_vars

\* the lifecycle of one Article whose content fields are also assigned directly
SpecFields == InitFields /\ [][NextFields]_vars

\* any sequence of download() calls on one Article
SpecDownload == Init /\ [][Download]_vars


(***************************************************************************)
(* Properties.  `ret` describes the call that led to the current state, so *)
(* in a step ret' is the call made and art, art' the Article around it.    *)
(***************************************************************************)
\* the positions of the fetches of one kind in a call's fetch log
FetchesOf(r, kind) == {i \in DOMAIN r.fetches : r.fetches[i].kind = kind}

\* the html a download() call starts from: the cached page handed in, or the
\* page the primary fetch returned (None if that fetch failed)
FirstHtml(r) ==
    IF r.input_html # None THEN r.input_html
    ELSE IF r.fetches # <<>> /\ r.fetches[1].ok THEN PageAt(r.fetches[1].url)
    ELSE None

\* the methods that require an earlier lifecycle step
Guarded == {"parse", "nlp", "is_valid_body", "to_json"}

\* C1: parse() raises when download_state is NOT_STARTED (the message names
\* download()) or FAILED_RESPONSE; nlp() raises unless download_state is
\* SUCCESS and is_parsed; is_valid_body() and to_json() raise when is_parsed is
\* false; and a call that raises leaves every field of the Article as it was.
C1_OutOfOrderRaises ==
    [][ /\ ret'.op = "parse" /\ art.download_state = NOT_STARTED
             => ret'.raised = "You must download() an article first!"
        /\ ret'.op = "parse" /\ art.download_state = FAILED_RESPONSE
             => ret'.raised = "Article download() failed with %s on URL %s"
        /\ ret'.op = "nlp"
             => (ret'.raised = "none")
                  = (art.download_state = SUCCESS /\ art.is_parsed)
        /\ ret'.op \in {"is_valid_body", "to_json"} /\ ~art.is_parsed
             => ret'.raised # "none"
        /\ ret'.op \in Guarded /\ ret'.raised # "none"
             => art' = art /\ config' = config ]_vars

\* C1 witness: nlp() has raised on an Article that is parsed but whose last
\* download failed
C1_Witness ==
    /\ ret.op = "nlp" /\ ret.raised # "none"
    /\ art.is_parsed /\ art.download_state = FAILED_RESPONSE


\* whether the call started with a network or file fetch that succeeded
PrimaryOk(r) ==
    r.fetches # <<>> /\ r.fetches[1].kind = "primary" /\ r.fetches[1].ok

\* C2: download_state is NOT_STARTED only before the first download() call:
\* every call ends with download_state FAILED_RESPONSE or SUCCESS, and a call
\* made in state FAILED_RESPONSE whose fetch succeeds ends in SUCCESS.
C2_DownloadStateAfterCall ==
    [][ ret'.op = "download"
          => /\ art'.download_state \in {FAILED_RESPONSE, SUCCESS}
             /\ art.download_state = FAILED_RESPONSE /\ PrimaryOk(ret')
                  => art'.download_state = SUCCESS ]_vars

\* C3: download_exception_msg is set if and only if download_state is
\* FAILED_RESPONSE.
C3_MessageIffFailed ==
    (art.download_exception_msg # NoMsg) = (art.download_state = FAILED_RESPONSE)

\* C4: download() raises nothing: whatever the fetches and the read-more
\* handling do, the call returns with download_state FAILED_RESPONSE or SUCCESS.
C4_DownloadNeverRaises ==
    ret.op = "download"
      => ret.raised = "none" /\ art.download_state \in {FAILED_RESPONSE, SUCCESS}

\* C5: download(ignore_read_more=True) on an Article with a read-more selector
\* issues no read-more fetch and leaves url as it was.
C5_IgnoreReadMore ==
    [][ ret'.op = "download" /\ ret'.ignore_read_more /\ art.read_more_link # ""
          => FetchesOf(ret', "readmore") = {} /\ art'.url = art.url ]_vars

\* whether a read-more re-fetch of the call succeeded
ReadMoreOk(r) == \E i \in FetchesOf(r, "readmore") : r.fetches[i].ok

\* C6: meta-refresh is followed one hop and no further: a call makes at most
\* one recursive download, for the meta-refresh target B found in the html it
\* started from; B's own meta-refresh target is not fetched and B's content is
\* what the call keeps as html (the read-more step, if it replaces anything,
\* works on B's content); html without a meta-refresh tag makes no recursive
\* call.
C6_MetaRefreshDepthOne ==
    ret.op = "download"
      => /\ ret.depth <= 1
         /\ Cardinality(FetchesOf(ret, "meta")) = ret.depth
         /\ \A i \in FetchesOf(ret, "meta") :
              /\ config.follow_meta_refresh
              /\ ret.fetches[i].url = extract_meta_refresh(FirstHtml(ret))
              /\ ret.fetches[i].ok
                   => /\ ret.page = PageAt(ret.fetches[i].url)
                      /\ ret.raised = "none" /\ ~ReadMoreOk(ret)
                           => art.html = PageAt(ret.fetches[i].url)
         /\ extract_meta_refresh(FirstHtml(ret)) = NoUrl
              => ret.depth = 0 /\ FetchesOf(ret, "meta") = {}

\* C6 witness: a call that started from page A (refreshing to B, which refreshes
\* to C) has stored B's content and fetched C in no way
C6_Witness ==
    /\ ret.op = "download" /\ ret.raised = "none"
    /\ FirstHtml(ret) = "hA" /\ extract_meta_refresh("hA") = uB
    /\ extract_meta_refresh("hB") = uC
    /\ art.html = "hB"
    /\ \A i \in DOMAIN ret.fetches : ret.fetches[i].url # uC

\* C7: one download() call issues at most one primary fetch, one meta-refresh
\* fetch and one read-more fetch, and a fetch that failed is the last one of
\* the call (nothing is retried); so every call ends.
C7_BoundedFetches ==
    ret.op = "download"
      => /\ \A i \in DOMAIN ret.fetches :
              ret.fetches[i].kind \in {"primary", "meta", "readmore"}
         /\ \A kind \in {"primary", "meta", "readmore"} :
              Cardinality(FetchesOf(ret, kind)) <= 1
         /\ \A i \in DOMAIN ret.fetches :
              ~ret.fetches[i].ok => i = Len(ret.fetches)

\* C7 witness: a call that issued all three fetches, the read-more one failing
C7_Witness ==
    /\ ret.op = "download"
    /\ Len(ret.fetches) = 3 /\ ~ret.fetches[3].ok

\* the nodes the read-more selector matches on a page
NodesOf(page, selector) ==
    IF fromstring(page) = NoneNode THEN <<>> ELSE xpath(fromstring(page), selector)

\* the position of the first node with an href, 0 if there is none
FirstHref(nodes) ==
    IF \E i \in DOMAIN nodes : has_href(nodes[i])
    THEN CHOOSE i \in DOMAIN nodes :
           has_href(nodes[i]) /\ \A j \in 1..(i - 1) : ~has_href(nodes[j])
    ELSE 0

\* the selector matches two nodes on the page, the first without an href and
\* the second with one, and the caller did not suppress read-more handling
NoHrefThenHref(r, selector) ==
    /\ r.op = "download" /\ ~r.ignore_read_more /\ selector # ""
    /\ Len(NodesOf(r.page, selector)) = 2
    /\ ~has_href(NodesOf(r.page, selector)[1])
    /\ has_href(NodesOf(r.page, selector)[2])

\* C8 as claimed: when the first matching node has no href and the second has
\* one, no read-more fetch is issued and html and url stay the original page's.
C8_NoFallThrough ==
    [][ NoHrefThenHref(ret', art.read_more_link)
          => /\ FetchesOf(ret', "readmore") = {}
             /\ art'.html = ret'.page
             /\ art'.url = art.url ]_vars

\* C8 amended: the node without an href is skipped and the second node is
\* followed: exactly one read-more fetch is issued, for the second node's href
\* resolved against url; if it succeeds html and url become the target's, if
\* it fails they stay the original page's.
C8_FallsThroughToFirstHref ==
    [][ NoHrefThenHref(ret', art.read_more_link)
          => LET target == prepare_url(NodesOf(ret'.page, art.read_more_link)[2], art.url)
             IN  /\ Cardinality(FetchesOf(ret', "readmore")) = 1
                 /\ \A i \in FetchesOf(ret', "readmore") :
                      /\ ret'.fetches[i].url = target
                      /\ ret'.fetches[i].ok
                           => art'.html = PageAt(target) /\ art'.url = target
                      /\ ~ret'.fetches[i].ok
                           => art'.html = ret'.page /\ art'.url = art.url ]_vars

\* C8 witness: on page D (first node without href, second linking to E) the
\* call has followed the second node and holds E's content and url
C8_Witness ==
    /\ NoHrefThenHref(ret, art.read_more_link)
    /\ ret.page = "hD" /\ ReadMoreOk(ret)
    /\ art.html = "hE" /\ art.url = uE

\* C9: the read-more re-fetch is all-or-nothing and attempted once: a call
\* fetches the href of the first matching node that has one (always, unless
\* the caller suppressed it) and no other node's; if that fetch succeeds html
\* and url are the target's, if it fails html and url are the original page's
\* and the call still ends in SUCCESS.
C9_ReadMoreAllOrNothing ==
    [][ ret'.op = "download"
          => LET nodes == NodesOf(ret'.page, art.read_more_link)
                 first == FirstHref(nodes)
             IN  /\ \A i \in FetchesOf(ret', "readmore") :
                      /\ first # 0
                      /\ FetchesOf(ret', "readmore") = {i}
                      /\ ret'.fetches[i].url = prepare_url(nodes[first], art.url)
                      /\ ret'.raised = "none"
                      /\ art'.download_state = SUCCESS
                      /\ ret'.fetches[i].ok
                           => /\ art'.html = PageAt(ret'.fetches[i].url)
                              /\ art'.url = ret'.fetches[i].url
                      /\ ~ret'.fetches[i].ok
                           => art'.html = ret'.page /\ art'.url = art.url
                 /\ ~ret'.ignore_read_more /\ art.read_more_link # "" /\ first # 0
                      => FetchesOf(ret', "readmore") # {}
                 /\ FetchesOf(ret', "readmore") = {} => art'.url = art.url ]_vars

\* C9 witness: on a page with two linked nodes the re-fetch of the first has
\* failed, and the call has ended in SUCCESS with the original page
C9_Witness ==
    /\ ret.op = "download"
    /\ \E i \in FetchesOf(ret, "readmore") : ~ret.fetches[i].ok
    /\ Len(NodesOf(ret.page, art.read_more_link)) = 2
    /\ has_href(NodesOf(ret.page, art.read_more_link)[1])
    /\ has_href(NodesOf(ret.page, art.read_more_link)[2])
    /\ art.download_state = SUCCESS /\ art.html = ret.page

\* C10: when the html a download() stores was obtained by following a
\* meta-refresh or a read-more link to a different URL, url is that target and
\* differs from original_url; original_url never changes.
C10_UrlFollowsRedirect ==
    [][ /\ art'.original_url = art.original_url
        /\ ret'.op = "download" /\ ret'.raised = "none"
             => \A i \in DOMAIN ret'.fetches :
                  ( /\ i = Len(ret'.fetches)
                    /\ ret'.fetches[i].kind \in {"meta", "readmore"}
                    /\ ret'.fetches[i].ok
                    /\ ret'.fetches[i].url # art.url )
                  => /\ art'.html = PageAt(ret'.fetches[i].url)
                     /\ art'.url = ret'.fetches[i].url
                     /\ art'.url # art'.original_url ]_vars


\* C11: when the primary fetch of download() returns a status code >= 400,
\* download_state becomes FAILED_RESPONSE and download_exception_msg is the
\* "Website protected with {vendor}, url: {url}" message if the detector
\* finds a vendor marker in the body, else "Status code {code} for url {url}",
\* with {url} the requested URL (the Article's url) and {code} the status
\* returned; a primary fetch that returns a status < 400 does not fail the call.
C11_StatusFailureMessage ==
    [][ ret'.op = "download"
          => \A i \in FetchesOf(ret', "primary") :
               /\ ret'.fetches[i].outcome = "status"
                    => /\ art'.download_state = FAILED_RESPONSE
                       /\ art'.download_exception_msg =
                            IF MarkersIn(ErrorBodyAt(art.url)) # {}
                            THEN <<"Website protected with {protection}, url: {url}", 0,
                                   _detect_protection(ErrorBodyAt(art.url)), art.url>>
                            ELSE <<"Status code {status_code} for url {url}",
                                   ErrorStatusAt(art.url), None, art.url>>
               /\ ret'.fetches[i].outcome = "ok" /\ ret'.raised = "none"
                    => art'.download_state = SUCCESS ]_vars


\* C12: for every Article whose download_state is SUCCESS, parse() returns
\* without raising and leaves is_parsed true, also when the raw html yields
\* no tree; and is_parsed never goes from true back to false, whatever call
\* (download, parse, nlp, snapshot, restore) comes later.
C12_ParseMarksParsed ==
    [][ /\ ret'.op = "parse" /\ art.download_state = SUCCESS
             => ret'.raised = "none" /\ art'.is_parsed
        /\ art.is_parsed => art'.is_parsed ]_vars

\* C12 witness: parse() has returned on html without a tree, after an earlier
\* parse of a page with a body
C12_Witness ==
    /\ ret.op = "parse" /\ ret.raised = "none"
    /\ fromstring(art.html) = NoneNode /\ art.doc = NoneNode
    /\ art.is_parsed /\ art.text # EmptyStr

\* whether parse() of this html ends without a tree or without a top node
Unusable(html) ==
    \/ fromstring(html) = NoneNode
    \/ calculate_best_node(fromstring_readability(html_readability(html)))
         = NoneNode

\* C13: after any parse() whose html yields no tree or whose selection yields
\* no top node, text, article_html and text_cleaned are empty and top_node is
\* null, whatever was downloaded and parsed on the same Article before.
C13_UnusableDocumentIsEmpty ==
    ret.op = "parse" /\ ret.raised = "none" /\ Unusable(art.html)
      => /\ art.text = EmptyStr
         /\ art.article_html = EmptyStr
         /\ art.text_cleaned = EmptyStr
         /\ art.top_node = NoneNode

\* C15: after parse(), meta_keywords holds the first max_keywords entries of
\* the metadata collaborator's keyword list and authors holds the first
\* max_authors entries of the authors the collaborator returns.
C15_MetaKeywordsAndAuthorsClipped ==
    ret.op = "parse" /\ ret.raised = "none" /\ fromstring(art.html) # NoneNode
      => /\ Len(art.meta_keywords) <= config.max_keywords
         /\ art.meta_keywords
              = Clip(get_meta_keywords(fromstring(art.html)), config.max_keywords)
         /\ Len(art.authors) <= config.max_authors
         /\ art.authors = Clip(get_authors(fromstring(art.html)), config.max_authors)

\* C16: the title given to the constructor is the default title: parse() of a
\* page from which no title can be extracted leaves the title the Article had
\* (the constructor title, clipped to max_title) and does not empty it.
C16_ConstructorTitleIsDefault ==
    [][ /\ ret'.op = "parse" /\ ret'.raised = "none"
        /\ get_title(fromstring(art.html)) = EmptyStr
        => art'.title = art.title ]_vars

\* the score of key k in a score map, 0 if k is not in it
ScoreIn(scores, k) ==
    IF HasKey(scores, k)
    THEN scores[CHOOSE i \in 1..Len(scores) : scores[i][1] = k][2]
    ELSE 0

\* twice the merged score of key k: the sum of its two scores if it is in both
\* maps (so the merged score is their mean), twice its score if it is in one
TwiceMerged(text_kw, title_kw, k) ==
    IF HasKey(text_kw, k) /\ HasKey(title_kw, k)
    THEN ScoreIn(text_kw, k) + ScoreIn(title_kw, k)
    ELSE 2 * (ScoreIn(text_kw, k) + ScoreIn(title_kw, k))

\* the keys of a score map
KeysOf(scores) == {scores[i][1] : i \in 1..Len(scores)}

\* C17: nlp() merges the text-keyword and the title-keyword score maps: a key
\* in both gets the mean of its two scores, a key in one keeps its score; the
\* merged entries are sorted by score descending and only then truncated to
\* max_keywords (no entry left out scores higher than one kept); keywords is
\* the ordered key list of keyword_scores, at most max_keywords long.
C17_KeywordMerge ==
    [][ ret'.op = "nlp" /\ ret'.raised = "none"
          => LET text_kw == text_keywords(art.text)
                 title_kw == title_keywords(art.title)
                 scores == art'.keyword_scores
             IN  /\ Len(scores) <= config.max_keywords
                 /\ art'.keywords = [i \in 1..Len(scores) |-> scores[i][1]]
                 /\ KeysOf(scores) \subseteq KeysOf(text_kw) \cup KeysOf(title_kw)
                 /\ \A i, j \in 1..Len(scores) :
                      /\ i < j => scores[i][2] >= scores[j][2]
                      /\ i # j => scores[i][1] # scores[j][1]
                 /\ \A i \in 1..Len(scores) :
                      2 * scores[i][2] = TwiceMerged(text_kw, title_kw, scores[i][1])
                 /\ \A k \in (KeysOf(text_kw) \cup KeysOf(title_kw)) \ KeysOf(scores) :
                      /\ Len(scores) = config.max_keywords
                      /\ \A i \in 1..Len(scores) :
                           TwiceMerged(text_kw, title_kw, k) <= 2 * scores[i][2] ]_vars

\* C17 witness: text keywords {a: 0.8, b: 0.4} and title keywords {a: 0.2,
\* c: 0.5} (in twentieths) were merged: a has the mean 0.5, and b, the lowest,
\* comes after a and c
C17_Witness ==
    /\ ret.op = "nlp" /\ ret.raised = "none"
    /\ text_keywords(art.text) = << <<"a", 16>>, <<"b", 8>> >>
    /\ title_keywords(art.title) = << <<"a", 4>>, <<"c", 10>> >>
    /\ art.keywords # <<>> /\ art.keywords[1] = "a"
    /\ art.keyword_scores[1] = <<"a", 10>> /\ art.keyword_scores[2] = <<"c", 10>>

\* what the restored top_node must be for the original one: non-null, at the
\* same position of the restored doc, an element with the same tag and text
SameNode(doc, top_node, restored_doc, restored_top_node) ==
    /\ restored_top_node # NoneNode
    /\ restored_doc # NoneNode
    /\ restored_top_node = top_node
    /\ restored_top_node[2] \in 1..Len(restored_doc)
    /\ Len(restored_doc) = Len(doc)
    /\ restored_doc[restored_top_node[2]].tag = doc[top_node[2]].tag
    /\ restored_doc[restored_top_node[2]].text = doc[top_node[2]].text

\* C18 as claimed: for any parsed Article with non-null top_node, restoring
\* its snapshot yields a non-null top_node that is the node of the restored
\* doc corresponding to the original one (same position, same content).
C18_RestoredTopNode ==
    [][ ret'.op = "__setstate__" /\ art.is_parsed /\ art.top_node # NoneNode
          => SameNode(art.doc, art.top_node, art'.doc, art'.top_node) ]_vars

\* C18 amended: for any parsed Article with download_state SUCCESS and
\* non-null top_node, restoring its snapshot yields a non-null top_node that
\* is the node of the restored doc corresponding to the original one.
C18_RestoredTopNodeAfterSuccess ==
    [][ /\ ret'.op = "__setstate__" /\ art.is_parsed
        /\ art.download_state = SUCCESS /\ art.top_node # NoneNode
        => SameNode(art.doc, art.top_node, art'.doc, art'.top_node) ]_vars

\* C18 witness: the Article restored from a snapshot holds the second element
\* of its doc as top_node, with the body text
C18_Witness ==
    /\ ret.op = "__setstate__"
    /\ art.top_node = <<"node", 2>> /\ Len(art.doc) = 2
    /\ art.doc[2].text = <<"d", " ", "d", ".", " ", "d">>
    /\ TopNodeMark \in art.doc[2].attrs /\ TopNodeMark \notin art.doc[1].attrs

\* C19: a snapshot holds none of top_node, clean_top_node,
\* top_node_complemented, doc, clean_doc and extractor; after restore every
\* other field equals its value at snapshot time, clean_doc and
\* clean_top_node are null, and when the snapshot was taken with a null
\* top_node or a download_state other than SUCCESS, doc, top_node and
\* top_node_complemented are null too.
C19_SnapshotFields ==
    [][ /\ ret'.op = "__getstate__" /\ ret'.raised = "none"
             => /\ (DOMAIN ret'.state) \cap Popped = {}
                /\ \A k \in (DOMAIN art) \ Popped : k \in DOMAIN ret'.state
        /\ ret'.op = "__setstate__"
             => /\ DOMAIN art' = DOMAIN art
                /\ \A k \in (DOMAIN art) \ Popped : art'[k] = art[k]
                /\ art'.clean_doc = NoneNode /\ art'.clean_top_node = NoneNode
                /\ art.top_node = NoneNode \/ art.download_state # SUCCESS
                     => /\ art'.doc = NoneNode
                        /\ art'.top_node = NoneNode
                        /\ art'.top_node_complemented = NoneNode ]_vars

\* C19 witness: an Article that was parsed with a body and whose later
\* download failed has been restored: its fields are kept, its trees are null
C19_Witness ==
    /\ ret.op = "__setstate__"
    /\ art.is_parsed /\ art.download_state = FAILED_RESPONSE
    /\ art.text # EmptyStr /\ art.keywords # <<>>
    /\ art.doc = NoneNode /\ art.top_node = NoneNode


\* C14: in every state reachable through construction, download(title=...),
\* parse(), nlp(), direct assignments to title, text, text_cleaned and summary,
\* and snapshot/restore, len(title) <= max_title, len(text) <= max_text,
\* len(text_cleaned) <= max_text and len(summary) <= max_summary.
C14_ContentFieldsClipped ==
    /\ Len(art.title) <= config.max_title
    /\ Len(art.text) <= config.max_text
    /\ Len(art.text_cleaned) <= config.max_text
    /\ Len(art.summary) <= config.max_summary


\* the number of sep-delimited segments of a text
Segments(text, sep) == Cardinality({i \in DOMAIN text : text[i] = sep}) + 1

\* media news: the url contains one of the fixed marker substrings
MediaUrl(url) ==
    \E i \in 1..Len(safe_urls), at \in 1..Len(url_str(url)) :
      /\ at + Len(safe_urls[i]) - 1 <= Len(url_str(url))
      /\ \A j \in 1..Len(safe_urls[i]) : url_str(url)[at + j - 1] = safe_urls[i][j]

\* rule 1 of the validity classifier
ValidRule1(a) ==
    a.extractor.meta_type = "article" /\ Segments(a.text, " ") > config.min_word_count

\* rules 2 to 6 of the validity classifier, each of which decides "invalid"
InvalidRules(a) ==
    << ~MediaUrl(a.url) /\ a.text = EmptyStr,
       Segments(a.title, " ") < 2,
       Segments(a.text, " ") < config.min_word_count,
       Segments(a.text, ".") < config.min_sent_count,
       a.html = "" >>

\* C20: is_valid_body() on a parsed Article returns the result of the first
\* matching rule: (1) meta type "article" and word count > min_word_count is
\* valid; (2) not media news and empty text, (3) a title of fewer than 2
\* space-delimited tokens, (4) word count < min_word_count, (5) sentence
\* count < min_sent_count, (6) empty html are invalid; (7) otherwise valid.
C20_ValidityRules ==
    ret.op = "is_valid_body" /\ art.is_parsed
      => /\ ret.raised = "none"
         /\ ret.value \in {"True", "False"}
         /\ ret.value = "True"
              <=> \/ ValidRule1(art)
                  \/ \A i \in 1..5 : ~InvalidRules(art)[i]

\* C20 witness: rule 1 has decided "valid" for an Article whose title has
\* fewer than 2 tokens and whose text has too few sentences
C20_Witness ==
    /\ ret.op = "is_valid_body" /\ ret.value = "True"
    /\ ValidRule1(art)
    /\ InvalidRules(art)[2] /\ InvalidRules(art)[4]


\* C21: after restoring a snapshot taken when top_node was non-null,
\* top_node_complemented is non-null and is the complemented node the Article
\* held when the snapshot was taken.
C21_RestoredComplementedNode ==
    [][ ret'.op = "__setstate__" /\ art.top_node # NoneNode
          => /\ art'.top_node_complemented # NoneNode
             /\ art'.top_node_complemented = art.top_node_complemented ]_vars

\* C22: a snapshot of a parsed Article never raises, whatever download, parse,
\* nlp, snapshot and restore calls came before; a snapshot taken right after a
\* restore of an Article with non-null top_node succeeds and restores to that
\* same top_node.
C22_SnapshotNeverRaises ==
    [][ /\ ret'.op = "__getstate__" /\ art.is_parsed => ret'.raised = "none"
        /\ ret'.op = "__getstate__" /\ ret.op = "__setstate__"
             /\ art.top_node # NoneNode
             => /\ ret'.raised = "none"
                /\ __setstate__(ret'.state).top_node = art.top_node ]_vars

\* a reference that points to an element of the tree
NodeOf(tree, node) ==
    /\ tree # NoneNode
    /\ node[1] = "node"
    /\ node[2] \in 1..Len(tree)

\* C23: in every state reachable by download(), parse(), snapshot and restore
\* a non-null top_node is a node of the tree held in doc, a non-null
\* clean_top_node is a node of the tree held in clean_doc, and
\* top_node_complemented is a node of neither tree.  (Trees are values here, a
\* copy never shares a node with its original.)
C23_NodesBelongToTrees ==
    /\ art.top_node # NoneNode => NodeOf(art.doc, art.top_node)
    /\ art.clean_top_node # NoneNode => NodeOf(art.clean_doc, art.clean_top_node)
    /\ art.top_node_complemented # NoneNode
         => /\ ~NodeOf(art.doc, art.top_node_complemented)
            /\ ~NodeOf(art.clean_doc, art.top_node_complemented)

\* C24: after a parse() that selects a top node, top_node_complemented is the
\* cleaned complemented node of the selection on doc, text and article_html
\* are formatted from it, text_cleaned is formatted from clean_top_node, and
\* the extractor holds the complemented node of the later selection on
\* clean_doc.
C24_PublishedTextFromDocSelection ==
    [][ ret'.op = "parse" /\ ret'.raised = "none" /\ fromstring(art.html) # NoneNode
          /\ art'.top_node # NoneNode
          => /\ art'.top_node_complemented
                  = <<"cleaned", <<"complemented", art'.doc[art'.top_node[2]].text>> >>
             /\ art'.text = Clip(art'.doc[art'.top_node[2]].text, config.max_text)
             /\ art'.article_html
                  = <<"<", "p", ">">> \o art'.doc[art'.top_node[2]].text
                      \o <<"<", "/", "p", ">">>
             /\ art'.clean_top_node # NoneNode
             /\ art'.text_cleaned
                  = Clip(art'.clean_doc[art'.clean_top_node[2]].text, config.max_text)
             /\ art'.extractor.top_node_complemented
                  = <<"complemented", art'.clean_doc[art'.clean_top_node[2]].text>> ]_vars

\* C24 witness: a page whose cleaned body differs from its reduced body has
\* been parsed: the published text is that of the reduced body while the
\* extractor is left with the complemented node of the cleaned one
C24_Witness ==
    /\ ret.op = "parse" /\ ret.raised = "none"
    /\ art.top_node = <<"node", 2>> /\ art.clean_top_node = <<"node", 3>>
    /\ art.text = <<"d", " ", "d">> /\ art.text_cleaned = <<"c", " ", "d">>
    /\ art.top_node_complemented
         = <<"cleaned", <<"complemented", <<"d", " ", "d", ".", " ", "d">> >> >>
    /\ art.extractor.top_node_complemented
         = <<"complemented", <<"c", " ", "d", ".", " ", "d">> >>

\* the position, in a download() call's fetch log, of the request whose
\* content the call stored: the read-more fetch that succeeded, else the
\* meta-refresh fetch, else the primary fetch; 0 if the stored html was handed
\* in by the caller
StoredFetch(r) ==
    IF ReadMoreOk(r)
    THEN CHOOSE i \in FetchesOf(r, "readmore") : r.fetches[i].ok
    ELSE IF FetchesOf(r, "meta") # {}
    THEN CHOOSE i \in FetchesOf(r, "meta") : \A j \in FetchesOf(r, "meta") : j <= i
    ELSE IF FetchesOf(r, "primary") # {} THEN 1
    ELSE 0

\* C26: when download() returns with download_state SUCCESS and the stored
\* html came from a network fetch, history is the redirect chain of that
\* fetch, also after a failed read-more fetch or a followed meta-refresh.
C26_HistoryOfStoredContent ==
    [][ /\ ret'.op = "download" /\ ret'.raised = "none"
        /\ art'.download_state = SUCCESS
        /\ StoredFetch(ret') # 0
        /\ scheme_of(ret'.fetches[StoredFetch(ret')].url) # "file"
        => art'.history = RedirectChain(ret'.fetches[StoredFetch(ret')].url) ]_vars

\* C27: is_valid_body() returns the same result on an Article restored from a
\* snapshot as on the Article the snapshot was taken from; an Article that is
\* valid by rule 1 is valid after snapshot/restore.
C27_ValidityAfterRestore ==
    [][ ret'.op = "__setstate__" /\ art.is_parsed
          => /\ is_valid_body(art') = is_valid_body(art)
             /\ ValidRule1(art) => is_valid_body(art').value = "True" ]_vars

\* the Article a call was made on
Target(r) == IF r.on = "peer" THEN peer ELSE art

\* the language in force for an Article's own run: the language its parse()
\* adopted, else the configured one
ScopedLanguage(a) ==
    IF a.meta_lang # None /\ config.use_meta_language THEN a.meta_lang
    ELSE DefaultLanguage

\* C25: config.language changes only in a parse() that detected an available
\* language while use_meta_language is set, and the nlp() of an Article uses
\* the language of its own run, whatever the parse() of the Article sharing
\* its configuration adopted in between.
C25_LanguageScopedToArticle ==
    [][ /\ config'.language # config.language
             => /\ ret'.op = "parse" /\ ret'.raised = "none"
                /\ config.use_meta_language
                /\ config'.language \in get_available_languages
        /\ ret'.op = "nlp" /\ ret'.raised = "none"
             => ret'.language = ScopedLanguage(Target(ret')) ]_vars

=============================================================================
